---- MODULE Spec2Model ----
(***************************************************************************)
(* TI IWR1843 point-cloud capture: the TI1843Radar class of radar.py       *)
(* (variant "radar") and of radar1.py / radar2.py (variant "radar1", the   *)
(* two files hold the same class).  The model covers the session           *)
(* operations (connect, disconnect, send_config, start_capture,            *)
(* stop_capture), the capture worker thread, and the byte-level frame      *)
(* decoder _parse_pointcloud.                                              *)
(***************************************************************************)
EXTENDS Integers, Sequences, FiniteSets, TLC

VARIABLES
    variant,       \* which source file's class is running
    cli,           \* self.cli: "none" (None) or "open" (an open Serial)
    data,          \* self.data
    running,       \* self.running
    capturing,     \* self.capturing
    buffer,        \* self.buffer: sequence of bytes
    points_count,  \* self.points_count (radar.py only)
    ws,            \* the capture worker threads: ws[w] is a record
    scn,           \* the byte stream the sensor sends, and how it is chunked
    pos,           \* number of chunks of that stream already sent
    rx,            \* bytes waiting in the data port (data.in_waiting of them)
    delivered,     \* the point lists handed to the callback, oldest first
    last,          \* the last public operation called and what it returned;
                   \* last.seen is the number of callbacks made and last.read
                   \* the number of bytes read from the data port by then
    caller         \* where the thread that calls the public operations stands:
                   \* "ready", or "closing" inside disconnect() after its stop_capture()

vars == <<variant, cli, data, running, capturing, buffer, points_count,
          ws, scn, pos, rx, delivered, last, caller>>

----------------------------------------------------------------------------
(* Bounds of the model. *)

\* number of capture worker threads that can be alive at once
MaxWorkers == 2

\* longest list of point records in a generated frame
MaxRecs == 3

----------------------------------------------------------------------------
(* Bytes, slices and the struct formats. *)

MAGIC_WORD == <<2, 1, 4, 3, 6, 5, 8, 7>>

\* the corruption guard of _parse_pointcloud
MaxPoints == 1000

\* size of one point record, '4f'
PointSize == 16

Min(a, b) == IF a < b THEN a ELSE b

\* Python's s[a:b] for 0 <= a <= b, offsets counted from 0, clamped to len(s)
Slice(s, a, b) == SubSeq(s, a + 1, Min(b, Len(s)))

\* a search that returns the last occurrence (rindex)
IndexLast(s, pat) ==
    LET hits == {i \in 0..(Len(s) - Len(pat)) : SubSeq(s, i + 1, i + Len(pat)) = pat}
    IN  IF hits = {} THEN -1
        ELSE CHOOSE i \in hits : \A j \in hits : i >= j

\* bytes.index(pat): offset of the first occurrence, -1 for ValueError
Index(s, pat) ==
    LET hits == {i \in 0..(Len(s) - Len(pat)) : SubSeq(s, i + 1, i + Len(pat)) = pat}
    IN  IF hits = {} THEN -1
        ELSE CHOOSE i \in hits : \A j \in hits : i <= j

\* MAGIC_WORD in buffer
Contains(s, pat) == \E i \in 0..(Len(s) - Len(pat)) : SubSeq(s, i + 1, i + Len(pat)) = pat

\* struct '<I' on 4 bytes, kept as two 16-bit halves: value = lo + 65536 * hi
U32(b) == [lo |-> b[1] + 256 * b[2], hi |-> b[3] + 256 * b[4]]

\* struct.unpack('<7I', b): raises struct.error (ok = FALSE) unless b holds 28 bytes
Unpack7I(b) ==
    IF Len(b) # 28 THEN [ok |-> FALSE, v |-> <<>>]
    ELSE [ok |-> TRUE, v |-> [k \in 1..7 |-> U32(SubSeq(b, 4 * k - 3, 4 * k))]]

\* struct.unpack('<2I', b): raises struct.error (ok = FALSE) unless b holds 8 bytes
Unpack2I(b) ==
    IF Len(b) # 8 THEN [ok |-> FALSE, v |-> <<>>]
    ELSE [ok |-> TRUE, v |-> <<U32(SubSeq(b, 1, 4)), U32(SubSeq(b, 5, 8))>>]

\* struct 'f' on 4 bytes (IEEE-754 single, little endian): sign, exponent, mantissa
F32(b) ==
    [sign |-> b[4] \div 128,
     exp  |-> 2 * (b[4] % 128) + (b[3] \div 128),
     mant |-> 65536 * (b[3] % 128) + 256 * b[2] + b[1]]

\* struct.unpack('4f', b) on exactly 16 bytes: x, y, z, vel
Unpack4f(b) == [k \in 1..4 |-> F32(SubSeq(b, 4 * k - 3, 4 * k))]

\* a comparison of bit patterns: only the positive zero equals 0
FloatBitsZero(f) == f.sign = 0 /\ f.exp = 0 /\ f.mant = 0

\* f == 0 in Python: both zeros compare equal to 0, NaN compares unequal
FloatEqZero(f) == f.exp = 0 /\ f.mant = 0

\* a filter that looks at x and y only
NonZeroTripleXY(p) == ~(FloatEqZero(p[1]) /\ FloatEqZero(p[2]))

\* (x, y, z) != (0, 0, 0)
NonZeroTriple(p) == ~(FloatEqZero(p[1]) /\ FloatEqZero(p[2]) /\ FloatEqZero(p[3]))

\* a count that rounds up
NumPointsRoundUp(tlv_length) == ((tlv_length.lo + 15) \div 16) + 4096 * tlv_length.hi

\* tlv_length // 16 (65536 is a multiple of 16, so the halves divide apart)
NumPoints(tlv_length) == (tlv_length.lo \div 16) + 4096 * tlv_length.hi

\* tlv_type != 1
TypeIsNotOne(tlv_type) == ~(tlv_type.lo = 1 /\ tlv_type.hi = 0)

----------------------------------------------------------------------------
(* _parse_pointcloud.  A result is the list of kept points; every          *)
(* exception inside the function is caught and gives the empty list.       *)

\* radar.py: for offset in range(0, num_points * 16, 16), break on a short record
RECURSIVE ReadPointsBreak(_, _, _, _)
ReadPointsBreak(buf, data_start, i, num_points) ==
    IF i >= num_points THEN <<>>
    ELSE LET point_data == Slice(buf, data_start + PointSize * i,
                                 data_start + PointSize * i + PointSize)
         IN  IF Len(point_data) < PointSize THEN <<>>
             ELSE LET p == Unpack4f(point_data)
                      rest == ReadPointsBreak(buf, data_start, i + 1, num_points)
                  IN  IF NonZeroTriple(p) THEN <<p>> \o rest ELSE rest

\* radar1.py: for i in range(num_points), struct.unpack raises on a short record
\* (ok = FALSE), and the caller's except then returns the empty list
RECURSIVE ReadPointsRaise(_, _, _, _)
ReadPointsRaise(buf, off, i, num_points) ==
    IF i >= num_points THEN [ok |-> TRUE, pts |-> <<>>]
    ELSE LET point_data == Slice(buf, off + PointSize * i, off + PointSize * i + PointSize)
         IN  IF Len(point_data) # PointSize THEN [ok |-> FALSE, pts |-> <<>>]
             ELSE LET p == Unpack4f(point_data)
                      rest == ReadPointsRaise(buf, off, i + 1, num_points)
                  IN  IF ~rest.ok THEN rest
                      ELSE IF NonZeroTriple(p) THEN [ok |-> TRUE, pts |-> <<p>> \o rest.pts]
                      ELSE rest

\* the records loop of the running variant
ReadPoints(v, buf, start, num_points) ==
    IF v = "radar" THEN ReadPointsBreak(buf, start, 0, num_points)
    ELSE LET r == ReadPointsRaise(buf, start, 0, num_points)
         IN  IF r.ok THEN r.pts ELSE <<>>

\* the strict policy applied by every variant
TypeRejectedEverywhere(v, tlv_type) == TypeIsNotOne(tlv_type)

\* the TLV type policy: radar1.py returns the empty list unless tlv_type is 1
TypeRejected(v, tlv_type) == v = "radar1" /\ TypeIsNotOne(tlv_type)

\* a guard with one zero too many in the limit
OverCapWide(num_points) == num_points > 10 * MaxPoints

\* the corruption guard: num_points > 1000
OverCap(num_points) == num_points > MaxPoints

\* a decoder that takes the records from byte 48 of the buffer
parse_pointcloud_from_start(v, buf) ==
    LET idx == Index(buf, MAGIC_WORD)
    IN  IF idx = -1 THEN <<>>
        ELSE LET header == Slice(buf, idx, idx + 40)
                 fields == Unpack7I(Slice(header, 8, 36))
                 tlv    == Unpack2I(Slice(buf, idx + 40, idx + 48))
             IN  IF ~fields.ok \/ ~tlv.ok THEN <<>>
                 ELSE IF TypeRejected(v, tlv.v[1]) THEN <<>>
                 ELSE IF OverCap(NumPoints(tlv.v[2])) THEN <<>>
                 ELSE ReadPoints(v, buf, 48, NumPoints(tlv.v[2]))

\* a decoder that reads no more records than numDetectedObjects announces
parse_pointcloud_num_obj(v, buf) ==
    LET idx == Index(buf, MAGIC_WORD)
    IN  IF idx = -1 THEN <<>>
        ELSE LET header == Slice(buf, idx, idx + 40)
                 fields == Unpack7I(Slice(header, 8, 36))
                 tlv    == Unpack2I(Slice(buf, idx + 40, idx + 48))
             IN  IF ~fields.ok \/ ~tlv.ok THEN <<>>
                 ELSE IF TypeRejected(v, tlv.v[1]) THEN <<>>
                 ELSE IF OverCap(NumPoints(tlv.v[2])) THEN <<>>
                 ELSE LET num_obj == fields.v[6]
                          n == IF num_obj.hi > 0 THEN NumPoints(tlv.v[2])
                               ELSE Min(NumPoints(tlv.v[2]), num_obj.lo)
                      IN  ReadPoints(v, buf, idx + 48, n)

\* def _parse_pointcloud(self, buffer)
parse_pointcloud(v, buf) ==
    LET idx == Index(buf, MAGIC_WORD)
    IN  IF idx = -1 THEN <<>>
        ELSE LET header == Slice(buf, idx, idx + 40)
                 fields == Unpack7I(Slice(header, 8, 36))
                 tlv    == Unpack2I(Slice(buf, idx + 40, idx + 48))
             IN  IF ~fields.ok \/ ~tlv.ok THEN <<>>
                 ELSE IF TypeRejected(v, tlv.v[1]) THEN <<>>
                 ELSE IF OverCap(NumPoints(tlv.v[2])) THEN <<>>
                 ELSE ReadPoints(v, buf, idx + 48, NumPoints(tlv.v[2]))

----------------------------------------------------------------------------
(* The sensor: frames on the wire.  A frame is described by its values and *)
(* encoded to bytes; the decoder only ever sees the bytes.                 *)

\* struct '<I' of a value below 2^31
EncU32(n) == <<n % 256, (n \div 256) % 256, (n \div 65536) % 256, n \div 16777216>>

\* struct 'f' of a float given as sign, exponent, mantissa
EncF32(f) ==
    <<f.mant % 256, (f.mant \div 256) % 256,
      (f.mant \div 65536) + 128 * (f.exp % 2), (f.exp \div 2) + 128 * f.sign>>

EncRec(r) == EncF32(r[1]) \o EncF32(r[2]) \o EncF32(r[3]) \o EncF32(r[4])

RECURSIVE EncRecs(_)
EncRecs(rs) == IF rs = <<>> THEN <<>> ELSE EncRec(Head(rs)) \o EncRecs(Tail(rs))

RECURSIVE EncU32s(_)
EncU32s(ns) == IF ns = <<>> THEN <<>> ELSE EncU32(Head(ns)) \o EncU32s(Tail(ns))

\* pre: bytes before the marker; hdr: the 7 header fields; then 4 more header
\* bytes, the TLV header (ttype, tlen) and the point records
EncFrame(f) ==
    f.pre \o MAGIC_WORD \o EncU32s(f.hdr) \o <<0, 0, 0, 0>>
          \o EncU32(f.ttype) \o EncU32(f.tlen) \o EncRecs(f.recs)

RECURSIVE EncFrames(_)
EncFrames(fs) == IF fs = <<>> THEN <<>> ELSE EncFrame(Head(fs)) \o EncFrames(Tail(fs))

Frame(pre, hdr, ttype, tlen, recs) ==
    [pre |-> pre, hdr |-> hdr, ttype |-> ttype, tlen |-> tlen, recs |-> recs]

\* the whole byte stream of a scenario
Stream(s) == EncFrames(s.frames)

RECURSIVE Sum(_)
Sum(ns) == IF ns = <<>> THEN 0 ELSE Head(ns) + Sum(Tail(ns))

\* the k-th chunk the sensor sends
Chunk(s, k) ==
    LET before == Sum(SubSeq(s.cuts, 1, k - 1))
    IN  SubSeq(Stream(s), before + 1, before + s.cuts[k])

(* Floats and records used in generated frames. *)
PosZero == [sign |-> 0, exp |-> 0, mant |-> 0]
NegZero == [sign |-> 1, exp |-> 0, mant |-> 0]
One     == [sign |-> 0, exp |-> 127, mant |-> 0]
MinusTwo == [sign |-> 1, exp |-> 128, mant |-> 0]
NaN     == [sign |-> 0, exp |-> 255, mant |-> 4194304]
Tiny    == [sign |-> 0, exp |-> 0, mant |-> 1]

RecA   == <<One, PosZero, PosZero, MinusTwo>>
RecB   == <<PosZero, PosZero, MinusTwo, PosZero>>
RecZ   == <<PosZero, PosZero, PosZero, PosZero>>
RecZv  == <<PosZero, PosZero, PosZero, One>>
RecNz  == <<NegZero, PosZero, NegZero, One>>
RecNaN == <<NaN, PosZero, PosZero, PosZero>>
RecTiny == <<PosZero, Tiny, PosZero, One>>

RecSet == {RecA, RecB, RecZ, RecZv, RecNz}

SeqsUpTo(S, n) == UNION {[1..k -> S] : k \in 0..n}

Hdr0 == <<0, 0, 0, 0, 0, 0, 0>>
Hdr1 == <<3, 112, 661571, 7, 1000, 2, 1>>
Junk == <<9, 2, 1>>

\* the mixed list of Scenario A, cut to the bound
Mixed == SubSeq(<<RecA, RecZ, RecB, RecNz, RecA, RecZv, RecB, RecZ>>, 1, MaxRecs)

\* complete frames of every record list up to the bound
FramesA == {Frame(<<>>, Hdr0, 1, PointSize * Len(r), r) : r \in SeqsUpTo(RecSet, MaxRecs)}

\* frames whose prefix, header, type and announced length vary
FramesB ==
    {Frame(pre, hdr, ty, tl, r) :
        pre \in {<<>>, Junk}, hdr \in {Hdr1}, ty \in {1, 2},
        tl \in {PointSize * MaxRecs, PointSize * MaxRecs + 5, PointSize * (MaxRecs + 1),
                15, 16000, 16016, 16100, 1048576},
        r \in {Mixed, <<RecNaN, RecTiny>>}}

\* the places where a frame of Len(pre) = p and n records is cut in two chunks
CutPoints(f) ==
    LET p == Len(f.pre)
    IN  {p + 4, p + 20, p + 44} \cup
        {p + 48 + PointSize * k + 8 : k \in 0..(Len(f.recs) - 1)} \cup
        {p + 48 + PointSize * k : k \in 1..(Len(f.recs) - 1)}

Scenario(frames, cuts) == [frames |-> frames, cuts |-> cuts]

Whole(f) == Scenario(<<f>>, <<Len(EncFrame(f))>>)

InTwo(f, c) == Scenario(<<f>>, <<c, Len(EncFrame(f)) - c>>)

\* two frames sent back to back: in one chunk, one chunk each, or cut inside the first
Pairs ==
    LET fs == {Frame(<<>>, Hdr1, 1, PointSize * Len(r), r) :
                  r \in {<<RecA>>, <<RecZ>>, Mixed}}
        g  == Frame(<<>>, Hdr0, 1, PointSize, <<RecB>>)
    IN  UNION {LET a == Len(EncFrame(f))
                   b == Len(EncFrame(g))
               IN  {Scenario(<<f, g>>, <<a + b>>), Scenario(<<f, g>>, <<a, b>>),
                    Scenario(<<f, g>>, <<20, a + b - 20>>)} : f \in fs}

\* header words that disagree with the frame they announce: every word at
\* its largest, a million objects and 99 TLVs in front of MaxRecs records
Hdr2 == <<2147483647, 2147483647, 2147483647, 2147483647, 2147483647,
          1000000, 99>>

\* the same records and TLV header behind each of the three headers
FramesH ==
    {Frame(<<>>, h, ty, 16 * Len(Mixed), Mixed) :
        h \in {Hdr0, Hdr1, Hdr2}, ty \in {1, 2}}

\* a frame whose marker arrives in three chunks (3 + 3 + 2 bytes and the rest)
InThree(f) ==
    LET p == Len(f.pre)
    IN  Scenario(<<f>>, <<p + 3, 3, Len(EncFrame(f)) - p - 6>>)

SplitMarkers ==
    {InThree(Frame(pre, Hdr1, 1, PointSize * Len(Mixed), Mixed)) : pre \in {<<>>, Junk}}

\* prefixes without a marker: the first 4 and the first 7 bytes of one, and
\* as many zero bytes as a record has
HalfMarker == SubSeq(MAGIC_WORD, 1, 4)
NearMarker == SubSeq(MAGIC_WORD, 1, 7)
ZeroBytes  == [i \in 1..PointSize |-> 0]

FramesP ==
    {Frame(pre, Hdr1, 1, PointSize * Len(Mixed), Mixed) :
        pre \in {HalfMarker, NearMarker, ZeroBytes}}

\* announced lengths around the cap and around one record, in front of the
\* records of Mixed
FramesCap ==
    {Frame(<<>>, Hdr1, 1, tl, Mixed) :
        tl \in {PointSize * MaxPoints, PointSize * MaxPoints + 1, PointSize * MaxPoints + 15,
                PointSize * (MaxPoints + 1), PointSize * (MaxPoints + 1) + 1,
                0, 1, PointSize, PointSize + 1, 2 * PointSize - 1, 2 * PointSize}}

\* the streams of the capture-session specification
LoopScenarios ==
    {Whole(f) : f \in FramesA \cup FramesB \cup FramesH \cup FramesP \cup FramesCap}
    \cup SplitMarkers
    \cup UNION {{InTwo(f, c) : c \in CutPoints(f)} : f \in FramesB}
    \cup Pairs

\* two one-record frames, one chunk each
TwoFrames ==
    LET f == Frame(<<>>, Hdr1, 1, PointSize, <<RecA>>)
        g == Frame(<<>>, Hdr0, 1, PointSize, <<RecB>>)
    IN  Scenario(<<f, g>>, <<Len(EncFrame(f)), Len(EncFrame(g))>>)

\* one one-record frame cut behind its first 20 bytes
CutFrame == InTwo(Frame(<<>>, Hdr1, 1, PointSize, <<RecA>>), 20)

\* the streams of the restart specification
RestartScenarios == {TwoFrames, CutFrame}

\* the streams of the full specification
SpecScenarios ==
    {Whole(Frame(<<>>, Hdr1, 1, PointSize * 2, <<RecA, RecZ>>)),
     Whole(Frame(Junk, Hdr0, 1, PointSize, <<RecZv>>))}

----------------------------------------------------------------------------
(* The session object and its public operations.                           *)

Variants == {"radar", "radar1"}

Workers == 1..MaxWorkers

\* a worker thread that does not exist (not started yet, or ended).
\* tmp: the value `self.buffer += ...` is about to store; arg: the buffer handed to
\* _parse_pointcloud; points: its result; found: the marker test of this iteration
\* succeeded; called: callback invocations of this iteration; failed: the
\* iteration ended in the except clause
NoWorker ==
    [pc |-> "idle", tmp |-> <<>>, arg |-> <<>>, points |-> <<>>, found |-> FALSE,
     called |-> 0, failed |-> FALSE]

\* a worker thread at the top of its loop, before `while self.running`
AtLoopTop == [NoWorker EXCEPT !.pc = "check"]

Active(w) == ws[w].pc # "idle"

ActiveWorkers == {w \in Workers : Active(w)}

\* a check that forgets the data channel
is_connected_cli_only == cli = "open"

\* is_connected(): both handles are set and open
is_connected == cli = "open" /\ data = "open"

\* a guard that forgets the connection test
StartRejectedCapturingOnly == capturing

\* the guard of start_capture: `not self.is_connected() or self.capturing`
StartRejected == ~is_connected \/ capturing

\* number of bytes of the stream the workers have read from the data port
BytesRead == Sum(SubSeq(scn.cuts, 1, pos)) - Len(rx)

\* how many public calls in a row, this one included, were start_capture on a
\* connected session, counted to 2
Row(op) == IF op = "start_capture" /\ is_connected THEN Min(last.row + 1, 2) ELSE 0

\* a public operation that runs from call to return in one step
Called(op, ret, tx) ==
    /\ caller = "ready"
    /\ last' = [op |-> op, ret |-> ret, row |-> Row(op), tx |-> tx,
                seen |-> Len(delivered), read |-> BytesRead]
    /\ UNCHANGED caller

\* a connect that begins by resetting the capture state
ConnectOkResetting ==
    /\ cli' = "open"
    /\ data' = "open"
    /\ running' = FALSE
    /\ capturing' = FALSE
    /\ buffer' = <<>>
    /\ Called("connect", TRUE, <<>>)
    /\ UNCHANGED <<variant, points_count, ws, scn, pos, rx, delivered>>

\* connect(): the two serial.Serial(...) calls; either may raise
ConnectOk ==
    /\ cli' = "open"
    /\ data' = "open"
    /\ Called("connect", TRUE, <<>>)
    /\ UNCHANGED <<variant, running, capturing, buffer, points_count, ws, scn, pos, rx,
                   delivered>>

ConnectCliFails ==
    /\ Called("connect", FALSE, <<>>)
    /\ UNCHANGED <<variant, cli, data, running, capturing, buffer, points_count, ws, scn,
                   pos, rx, delivered>>

\* the control port opened and was assigned, the data port raised
ConnectDataFails ==
    /\ cli' = "open"
    /\ Called("connect", FALSE, <<>>)
    /\ UNCHANGED <<variant, data, running, capturing, buffer, points_count, ws, scn, pos,
                   rx, delivered>>

\* the assignments of stop_capture: radar1.py leaves buffer and counter alone
StopEffects ==
    /\ running' = FALSE
    /\ capturing' = FALSE
    /\ buffer' = IF variant = "radar" THEN <<>> ELSE buffer
    /\ points_count' = IF variant = "radar" THEN 0 ELSE points_count

StopCapture ==
    /\ StopEffects
    /\ Called("stop_capture", TRUE, <<>>)
    /\ UNCHANGED <<variant, cli, data, ws, scn, pos, rx, delivered>>

\* a disconnect that goes on to close the ports without stopping capture
DisconnectWithoutStop ==
    /\ caller = "ready"
    /\ caller' = "closing"
    /\ UNCHANGED <<variant, cli, data, running, capturing, buffer, points_count, ws, scn,
                   pos, rx, delivered, last>>

\* disconnect(), its first statement: self.stop_capture()
DisconnectStop ==
    /\ caller = "ready"
    /\ StopEffects
    /\ caller' = "closing"
    /\ UNCHANGED <<variant, cli, data, ws, scn, pos, rx, delivered, last>>

\* disconnect(), the rest: close both ports, drop both handles, return;
\* bytes waiting in the closed data port are gone
DisconnectClose ==
    /\ caller = "closing"
    /\ cli' = "none"
    /\ data' = "none"
    /\ rx' = <<>>
    /\ last' = [op |-> "disconnect", ret |-> TRUE, row |-> 0, tx |-> <<>>,
                seen |-> Len(delivered), read |-> BytesRead]
    /\ caller' = "ready"
    /\ UNCHANGED <<variant, running, capturing, buffer, points_count, ws, scn, pos,
                   delivered>>

\* the thread start_capture creates takes the first free slot
FreeSlot == CHOOSE w \in Workers : ~Active(w) /\ \A u \in Workers : ~Active(u) => w <= u

StartCaptureRejected ==
    /\ StartRejected
    /\ Called("start_capture", FALSE, <<>>)
    /\ UNCHANGED <<variant, cli, data, running, capturing, buffer, points_count, ws, scn,
                   pos, rx, delivered>>

StartCaptureOk ==
    /\ ~StartRejected
    /\ \E w \in Workers : ~Active(w)
    /\ capturing' = TRUE
    /\ running' = TRUE
    /\ buffer' = <<>>
    /\ points_count' = 0
    /\ ws' = [ws EXCEPT ![FreeSlot] = AtLoopTop]
    /\ Called("start_capture", TRUE, <<>>)
    /\ UNCHANGED <<variant, cli, data, scn, pos, rx, delivered>>

(* send_config: the configuration file is a list of raw lines, each a list *)
(* of characters.                                                          *)

Whitespace == {" ", "\t", "\n", "\r"}

\* str.strip()
RECURSIVE LStrip(_)
LStrip(l) == IF l # <<>> /\ Head(l) \in Whitespace THEN LStrip(Tail(l)) ELSE l

RECURSIVE RStrip(_)
RStrip(l) ==
    IF l # <<>> /\ l[Len(l)] \in Whitespace THEN RStrip(SubSeq(l, 1, Len(l) - 1)) ELSE l

\* a strip of the left side only (lstrip)
StripLeft(l) == LStrip(l)

Strip(l) == RStrip(LStrip(l))

\* [l.strip() for l in f if l.strip()]
RECURSIVE ConfigLines(_)
ConfigLines(f) ==
    IF f = <<>> THEN <<>>
    ELSE IF Strip(Head(f)) = <<>> THEN ConfigLines(Tail(f))
    ELSE <<Strip(Head(f))>> \o ConfigLines(Tail(f))

\* f"{line}\n".encode() for each line
RECURSIVE Written(_)
Written(ls) == IF ls = <<>> THEN <<>> ELSE <<Head(ls) \o <<"\n">>>> \o Written(Tail(ls))

CfgFiles ==
    {<<>>,
     << <<" ", "\n">> >>,
     << <<"a", "\n">>, <<"\n">>, <<" ", "b", " ", "c", "\t", "\n">>, <<"d">> >>}

\* `if not self.is_connected(): return False`
SendConfigRejected ==
    /\ ~is_connected
    /\ Called("send_config", FALSE, <<>>)
    /\ UNCHANGED <<variant, cli, data, running, capturing, buffer, points_count, ws, scn,
                   pos, rx, delivered>>

\* open(CFG_PATH) or reading it raises: nothing was written
SendConfigUnreadable ==
    /\ is_connected
    /\ Called("send_config", FALSE, <<>>)
    /\ UNCHANGED <<variant, cli, data, running, capturing, buffer, points_count, ws, scn,
                   pos, rx, delivered>>

\* every line is written
SendConfigOk ==
    /\ is_connected
    /\ \E f \in CfgFiles : Called("send_config", TRUE, Written(ConfigLines(f)))
    /\ UNCHANGED <<variant, cli, data, running, capturing, buffer, points_count, ws, scn,
                   pos, rx, delivered>>

\* the k-th self.cli.write raises: the k - 1 lines before it stay written
SendConfigWriteFails ==
    /\ is_connected
    /\ \E f \in CfgFiles : \E k \in 1..Len(ConfigLines(f)) :
          Called("send_config", FALSE, Written(SubSeq(ConfigLines(f), 1, k - 1)))
    /\ UNCHANGED <<variant, cli, data, running, capturing, buffer, points_count, ws, scn,
                   pos, rx, delivered>>

----------------------------------------------------------------------------
(* The sensor sends its next chunk into the open data port. *)

Arrive ==
    /\ data = "open"
    /\ pos < Len(scn.cuts)
    /\ rx' = rx \o Chunk(scn, pos + 1)
    /\ pos' = pos + 1
    /\ UNCHANGED <<variant, cli, data, running, capturing, buffer, points_count, ws, scn,
                   delivered, last, caller>>

----------------------------------------------------------------------------
(* The capture worker, _capture_loop, one step per shared access.          *)

Goto(w, pc) == ws' = [ws EXCEPT ![w].pc = pc]

\* a loop test that never looks at the flag (`while True`)
WCheckForever(w) ==
    /\ ws[w].pc = "check"
    /\ ws' = [ws EXCEPT ![w] = [NoWorker EXCEPT !.pc = "poll"]]
    /\ UNCHANGED <<variant, cli, data, running, capturing, buffer, points_count, scn, pos,
                   rx, delivered, last, caller>>

\* `while self.running`
WCheck(w) ==
    /\ ws[w].pc = "check"
    /\ ws' = [ws EXCEPT ![w] = [NoWorker EXCEPT !.pc = IF running THEN "poll" ELSE "exit"]]
    /\ UNCHANGED <<variant, cli, data, running, capturing, buffer, points_count, scn, pos,
                   rx, delivered, last, caller>>

\* `if self.data.in_waiting > 0` is false: sleep, next iteration
WPollNone(w) ==
    /\ ws[w].pc = "poll"
    /\ data = "open"
    /\ rx = <<>>
    /\ Goto(w, "check")
    /\ UNCHANGED <<variant, cli, data, running, capturing, buffer, points_count, scn, pos,
                   rx, delivered, last, caller>>

\* a poll that replaces the buffer by the bytes read (`=` for `+=`)
WPollReadOverwrite(w) ==
    /\ ws[w].pc = "poll"
    /\ data = "open"
    /\ rx # <<>>
    /\ ws' = [ws EXCEPT ![w].pc = "store", ![w].tmp = rx]
    /\ rx' = <<>>
    /\ UNCHANGED <<variant, cli, data, running, capturing, buffer, points_count, scn, pos,
                   delivered, last, caller>>

\* `self.buffer += self.data.read(self.data.in_waiting)`: the buffer is loaded and
\* the bytes are read; the sum is stored by the next step
WPollRead(w) ==
    /\ ws[w].pc = "poll"
    /\ data = "open"
    /\ rx # <<>>
    /\ ws' = [ws EXCEPT ![w].pc = "store", ![w].tmp = buffer \o rx]
    /\ rx' = <<>>
    /\ UNCHANGED <<variant, cli, data, running, capturing, buffer, points_count, scn, pos,
                   delivered, last, caller>>

\* self.data is None after disconnect, or the serial port raises: the except
\* clause breaks out of the loop
WPollFail(w) ==
    /\ ws[w].pc = "poll"
    /\ ws' = [ws EXCEPT ![w].pc = "exit", ![w].failed = TRUE]
    /\ UNCHANGED <<variant, cli, data, running, capturing, buffer, points_count, scn, pos,
                   rx, delivered, last, caller>>

WStore(w) ==
    /\ ws[w].pc = "store"
    /\ buffer' = ws[w].tmp
    /\ Goto(w, "scan")
    /\ UNCHANGED <<variant, cli, data, running, capturing, points_count, scn, pos, rx,
                   delivered, last, caller>>

\* a marker test that drops the buffer when it finds no marker
WScanDropping(w) ==
    /\ ws[w].pc = "scan"
    /\ ws' = [ws EXCEPT ![w].found = Contains(buffer, MAGIC_WORD),
                         ![w].pc = IF Contains(buffer, MAGIC_WORD) THEN "parse" ELSE "check"]
    /\ buffer' = IF Contains(buffer, MAGIC_WORD) THEN buffer ELSE <<>>
    /\ UNCHANGED <<variant, cli, data, running, capturing, points_count, scn, pos,
                   rx, delivered, last, caller>>

\* `if MAGIC_WORD in self.buffer`; when it is not: sleep, next iteration
WScan(w) ==
    /\ ws[w].pc = "scan"
    /\ ws' = [ws EXCEPT ![w].found = Contains(buffer, MAGIC_WORD),
                         ![w].pc = IF Contains(buffer, MAGIC_WORD) THEN "parse" ELSE "check"]
    /\ UNCHANGED <<variant, cli, data, running, capturing, buffer, points_count, scn, pos,
                   rx, delivered, last, caller>>

\* a loop that calls the callback with empty lists too
AfterPointsAlways(points) == "call"

\* where the worker goes with its decoded points: `if len(points) > 0: callback(points)`
AfterPoints(points) == IF Len(points) > 0 THEN "call" ELSE "clear"

\* a decoder whose struct.error on a short header reaches the loop's except clause
WParseRaising(w) ==
    /\ ws[w].pc = "parse"
    /\ LET points == parse_pointcloud(variant, buffer)
           short  == Len(buffer) - Index(buffer, MAGIC_WORD) < 48
       IN  ws' = [ws EXCEPT ![w].arg = buffer, ![w].points = points,
                            ![w].pc = IF short THEN "exit"
                                      ELSE IF variant = "radar" THEN "count"
                                      ELSE AfterPoints(points)]
    /\ UNCHANGED <<variant, cli, data, running, capturing, buffer, points_count, scn, pos,
                   rx, delivered, last, caller>>

\* a decoder that consults the session: it decodes only while capturing is set
WParseStateful(w) ==
    /\ ws[w].pc = "parse"
    /\ LET points == IF capturing THEN parse_pointcloud(variant, buffer) ELSE <<>>
       IN  ws' = [ws EXCEPT ![w].arg = buffer, ![w].points = points,
                            ![w].pc = IF variant = "radar" THEN "count"
                                      ELSE AfterPoints(points)]
    /\ UNCHANGED <<variant, cli, data, running, capturing, buffer, points_count, scn, pos,
                   rx, delivered, last, caller>>

\* `points = self._parse_pointcloud(self.buffer)`; radar.py then stores the count
WParse(w) ==
    /\ ws[w].pc = "parse"
    /\ LET points == parse_pointcloud(variant, buffer)
       IN  ws' = [ws EXCEPT ![w].arg = buffer, ![w].points = points,
                            ![w].pc = IF variant = "radar" THEN "count"
                                      ELSE AfterPoints(points)]
    /\ UNCHANGED <<variant, cli, data, running, capturing, buffer, points_count, scn, pos,
                   rx, delivered, last, caller>>

\* `self.points_count = len(points)`
WCount(w) ==
    /\ ws[w].pc = "count"
    /\ points_count' = Len(ws[w].points)
    /\ Goto(w, AfterPoints(ws[w].points))
    /\ UNCHANGED <<variant, cli, data, running, capturing, buffer, scn, pos, rx,
                   delivered, last, caller>>

\* a loop that hands the points to a thread of its own (the first free slot)
\* and goes on without waiting for the consumer to return
WCallDetached(w) ==
    /\ ws[w].pc = "call"
    /\ delivered' = Append(delivered, ws[w].points)
    /\ capturing' = IF variant = "radar1" THEN TRUE ELSE capturing
    /\ LET free == {u \in Workers : ws[u].pc = "idle"}
       IN  IF free = {} THEN ws' = [ws EXCEPT ![w].pc = "incb", ![w].called = @ + 1]
           ELSE LET u == CHOOSE x \in free : \A y \in free : x <= y
                IN  ws' = [ws EXCEPT ![w].pc = "clear", ![w].called = @ + 1,
                                     ![u] = [NoWorker EXCEPT !.pc = "incb"]]
    /\ UNCHANGED <<variant, cli, data, running, buffer, points_count, scn, pos, rx, last,
                   caller>>

\* callback(points) is entered; data_callback of radar1.py and radar2.py begins
\* with `self.ctrl.radar.capturing = True`
WCall(w) ==
    /\ ws[w].pc = "call"
    /\ delivered' = Append(delivered, ws[w].points)
    /\ capturing' = IF variant = "radar1" THEN TRUE ELSE capturing
    /\ ws' = [ws EXCEPT ![w].pc = "incb", ![w].called = @ + 1]
    /\ UNCHANGED <<variant, cli, data, running, buffer, points_count, scn, pos, rx, last,
                   caller>>

\* the callback returns
WReturn(w) ==
    /\ ws[w].pc = "incb"
    /\ Goto(w, "clear")
    /\ UNCHANGED <<variant, cli, data, running, capturing, buffer, points_count, scn, pos,
                   rx, delivered, last, caller>>

\* a loop that clears the buffer only after a decode that gave points
WClearIfDecoded(w) ==
    /\ ws[w].pc = "clear"
    /\ buffer' = IF Len(ws[w].points) > 0 THEN <<>> ELSE buffer
    /\ Goto(w, "check")
    /\ UNCHANGED <<variant, cli, data, running, capturing, points_count, scn, pos, rx,
                   delivered, last, caller>>

\* `self.buffer = b''`, then sleep, next iteration
WClear(w) ==
    /\ ws[w].pc = "clear"
    /\ buffer' = <<>>
    /\ Goto(w, "check")
    /\ UNCHANGED <<variant, cli, data, running, capturing, points_count, scn, pos, rx,
                   delivered, last, caller>>

\* a thread that ends without touching the capturing flag
WExitKeepsFlag(w) ==
    /\ ws[w].pc = "exit"
    /\ ws' = [ws EXCEPT ![w] = NoWorker]
    /\ UNCHANGED <<variant, cli, data, running, capturing, buffer, points_count, scn, pos,
                   rx, delivered, last, caller>>

\* after the loop: `self.capturing = False`, and the thread ends
WExit(w) ==
    /\ ws[w].pc = "exit"
    /\ capturing' = FALSE
    /\ ws' = [ws EXCEPT ![w] = NoWorker]
    /\ UNCHANGED <<variant, cli, data, running, buffer, points_count, scn, pos, rx,
                   delivered, last, caller>>

----------------------------------------------------------------------------
(* Specifications. *)

\* a step of worker thread w; the exception of the poll is left to Spec
WorkerStep(w) ==
    \/ WCheck(w)
    \/ WPollNone(w)
    \/ WPollRead(w)
    \/ WStore(w)
    \/ WScan(w)
    \/ WParse(w)
    \/ WCount(w)
    \/ WCall(w)
    \/ WReturn(w)
    \/ WClear(w)
    \/ WExit(w)

NoCall == [op |-> "none", ret |-> FALSE, row |-> 0, tx |-> <<>>, seen |-> 0, read |-> 0]

Init ==
    /\ variant \in Variants
    /\ cli = "none"
    /\ data = "none"
    /\ running = FALSE
    /\ capturing = FALSE
    /\ buffer = <<>>
    /\ points_count = 0
    /\ ws = [w \in Workers |-> NoWorker]
    /\ scn \in SpecScenarios
    /\ pos = 0
    /\ rx = <<>>
    /\ delivered = <<>>
    /\ last = NoCall
    /\ caller = "ready"

Next ==
    \/ ConnectOk
    \/ ConnectCliFails
    \/ ConnectDataFails
    \/ DisconnectStop
    \/ DisconnectClose
    \/ SendConfigRejected
    \/ SendConfigUnreadable
    \/ SendConfigOk
    \/ SendConfigWriteFails
    \/ StartCaptureRejected
    \/ StartCaptureOk
    \/ StopCapture
    \/ Arrive
    \/ \E w \in Workers : WCheck(w)
    \/ \E w \in Workers : WPollNone(w)
    \/ \E w \in Workers : WPollRead(w)
    \/ \E w \in Workers : WPollFail(w)
    \/ \E w \in Workers : WStore(w)
    \/ \E w \in Workers : WScan(w)
    \/ \E w \in Workers : WParse(w)
    \/ \E w \in Workers : WCount(w)
    \/ \E w \in Workers : WCall(w)
    \/ \E w \in Workers : WReturn(w)
    \/ \E w \in Workers : WClear(w)
    \/ \E w \in Workers : WExit(w)

Spec == Init /\ [][Next]_vars

\* The user connects, then starts and stops the capture at will while two frames
\* arrive: the operations of Spec without failures, send_config and disconnect.
InitRestart ==
    /\ variant \in Variants
    /\ cli = "none"
    /\ data = "none"
    /\ running = FALSE
    /\ capturing = FALSE
    /\ buffer = <<>>
    /\ points_count = 0
    /\ ws = [w \in Workers |-> NoWorker]
    /\ scn \in RestartScenarios
    /\ pos = 0
    /\ rx = <<>>
    /\ delivered = <<>>
    /\ last = NoCall
    /\ caller = "ready"

NextRestart ==
    \/ ConnectOk
    \/ StartCaptureRejected
    \/ StartCaptureOk
    \/ StopCapture
    \/ Arrive
    \/ \E w \in Workers : WorkerStep(w)

SpecRestart == InitRestart /\ [][NextRestart]_vars

\* One capture session on its own: the state right after connect() and a
\* successful start_capture(), the sensor streaming, the user stopping at any time.
InitLoop ==
    /\ variant \in Variants
    /\ cli = "open"
    /\ data = "open"
    /\ running = TRUE
    /\ capturing = TRUE
    /\ buffer = <<>>
    /\ points_count = 0
    /\ ws = [w \in Workers |-> IF w = 1 THEN AtLoopTop ELSE NoWorker]
    /\ scn \in LoopScenarios
    /\ pos = 0
    /\ rx = <<>>
    /\ delivered = <<>>
    /\ last = [op |-> "start_capture", ret |-> TRUE, row |-> 1, tx |-> <<>>,
               seen |-> 0, read |-> 0]
    /\ caller = "ready"

NextLoop ==
    \/ StopCapture
    \/ Arrive
    \/ \E w \in Workers : WCheck(w)
    \/ \E w \in Workers : WPollNone(w)
    \/ \E w \in Workers : WPollRead(w)
    \/ \E w \in Workers : WStore(w)
    \/ \E w \in Workers : WScan(w)
    \/ \E w \in Workers : WParse(w)
    \/ \E w \in Workers : WCount(w)
    \/ \E w \in Workers : WCall(w)
    \/ \E w \in Workers : WReturn(w)
    \/ \E w \in Workers : WClear(w)
    \/ \E w \in Workers : WExit(w)

SpecLoop == InitLoop /\ [][NextLoop]_vars

\* the streams of the fair specification: the two-frame streams
FairScenarios == Pairs

InitLoopFair == InitLoop /\ scn \in FairScenarios

\* The capture session with a scheduler that lets every live thread run again:
\* a thread is a daemon thread of the interpreter, its sleep is 10 ms, and the
\* callback returns.
SpecLoopFair ==
    InitLoopFair /\ [][NextLoop]_vars /\ \A w \in Workers : WF_vars(WorkerStep(w))

----------------------------------------------------------------------------
(* Properties of the session operations, checked under Spec.               *)

\* both channels are present and open, spelled out on the fields
BothOpen == cli = "open" /\ data = "open"

\* C1: when start_capture is called twice in a row on a connected session, the
\* second call returns False, starts no thread and changes no field, and exactly
\* one capture worker is alive afterwards.
C1_SecondStartLeavesOneWorker ==
    [][(last.op = "start_capture" /\ last.row >= 1 /\ BothOpen
            /\ (StartCaptureOk \/ StartCaptureRejected))
          => (last'.ret = FALSE
              /\ UNCHANGED <<cli, data, running, capturing, buffer, points_count, ws>>
              /\ Cardinality({w \in Workers : ws'[w].pc # "idle"}) = 1)]_vars

\* the part of C1 that the code keeps: a start_capture on a session whose
\* capturing flag is set returns False, starts no thread and changes no field
C1_RejectedWhileCapturing ==
    [][(capturing /\ (StartCaptureOk \/ StartCaptureRejected))
          => (last'.ret = FALSE
              /\ UNCHANGED <<cli, data, running, capturing, buffer, points_count, ws>>)]_vars

\* C2: start_capture on a session that is not connected returns False, leaves
\* running, capturing, buffer and points_count as they were and starts no worker.
C2_StartNotConnected ==
    [][(~BothOpen /\ (StartCaptureOk \/ StartCaptureRejected))
          => (last'.op = "start_capture" /\ last'.ret = FALSE
              /\ UNCHANGED <<running, capturing, buffer, points_count, ws>>)]_vars

\* a rejected start_capture with the control channel open and the data channel missing
C2_Witness ==
    /\ last.op = "start_capture"
    /\ last.ret = FALSE
    /\ cli = "open"
    /\ data = "none"
    /\ ~capturing

\* C3: send_config on a session that is not connected returns False and writes
\* nothing; so whenever send_config wrote a line, both channels were open.
C3_SendConfigNeedsConnection ==
    last.op = "send_config"
        => /\ ~BothOpen => (last.ret = FALSE /\ last.tx = <<>>)
           /\ last.tx # <<>> => BothOpen
           /\ last.ret = TRUE => BothOpen

\* send_config was called on the idle session and refused
C3_Witness ==
    /\ last.op = "send_config"
    /\ cli = "none"
    /\ data = "none"
    /\ last.ret = FALSE
    /\ last.tx = <<>>

\* send_config wrote lines on a connected session, also while capturing
C3_WitnessSent ==
    /\ last.op = "send_config"
    /\ BothOpen
    /\ capturing
    /\ Len(last.tx) = 3

----------------------------------------------------------------------------
(* Properties of the decoder and of one loop iteration, checked under      *)
(* SpecLoop.  What a frame should decode to is computed from the values    *)
(* the sensor encoded, not from the bytes.                                 *)

MarkerAt(s, o) == o + 8 <= Len(s) /\ SubSeq(s, o + 1, o + 8) = MAGIC_WORD

HasMarker(s) == \E o \in 0..(Len(s) - 8) : MarkerAt(s, o)

FirstMarker(s) ==
    CHOOSE o \in 0..(Len(s) - 8) : MarkerAt(s, o) /\ \A q \in 0..(o - 1) : ~MarkerAt(s, q)

\* the bytes of a frame from its marker on
Body(f) == EncFrame([f EXCEPT !.pre = <<>>])

IsZeroValue(x) == x \in {PosZero, NegZero}

KeptRec(r) == ~(IsZeroValue(r[1]) /\ IsZeroValue(r[2]) /\ IsZeroValue(r[3]))

\* the records whose (x, y, z) is not (0, 0, 0), in wire order
Kept(rs) == SelectSeq(rs, KeptRec)

\* worker w has decoded a buffer in its current iteration
Parsed(w) == ws[w].found /\ ws[w].pc \in {"count", "call", "incb", "clear", "check"}

\* the frames of the stream that lie at the first marker of the decoded buffer,
\* as far as the buffer goes
FramesAtMarker(w) ==
    IF ~(Parsed(w) /\ HasMarker(ws[w].arg)) THEN {}
    ELSE LET arg == ws[w].arg
             o   == FirstMarker(arg)
         IN  {k \in 1..Len(scn.frames) :
                 SubSeq(arg, o + 1, Min(o + Len(Body(scn.frames[k])), Len(arg)))
                     = SubSeq(Body(scn.frames[k]), 1, Min(Len(Body(scn.frames[k])), Len(arg) - o))}

\* number of bytes of the decoded buffer from its first marker on
FromMarker(w) == Len(ws[w].arg) - FirstMarker(ws[w].arg)

\* the policy under which the TLV type of frame f is accepted
TypeAccepted(f) == variant = "radar" \/ f.ttype = 1

\* C4: a buffer holding marker, header, TLV header and all N announced records
\* (tlvLength = 16 * N, N <= 1000) decodes to exactly the records whose (x, y, z)
\* is not (0, 0, 0), in wire order.
C4_CompleteFrameDecodesToNonZeroRecords ==
    \A w \in Workers : \A k \in FramesAtMarker(w) :
        LET f == scn.frames[k]
        IN  (/\ FromMarker(w) >= Len(Body(f))
             /\ f.tlen = 16 * Len(f.recs)
             /\ Len(f.recs) <= 1000
             /\ TypeAccepted(f))
            => ws[w].points = Kept(f.recs)

\* Scenario A: three records, the second all zero, decode to the first and third
C4_Witness ==
    /\ variant = "radar"
    /\ Parsed(1)
    /\ 1 \in FramesAtMarker(1)
    /\ scn.frames[1].recs = <<RecA, RecZ, RecB>>
    /\ scn.frames[1].tlen = 48
    /\ ws[1].points = <<RecA, RecB>>

\* C5: a TLV length with tlvLength // 16 > 1000 decodes to the empty list whatever
\* follows the TLV header, and no callback is invoked in that iteration.
C5_OverCapDecodesToNothing ==
    \A w \in Workers : \A k \in FramesAtMarker(w) :
        LET f == scn.frames[k]
        IN  (FromMarker(w) >= 48 /\ f.tlen \div 16 > 1000)
            => (ws[w].points = <<>> /\ ws[w].called = 0 /\ ws[w].pc \notin {"call", "incb"})

\* an over-cap frame with a complete non-zero record behind its TLV header was
\* decoded and its iteration ended without a callback
C5_Witness ==
    /\ variant = "radar"
    /\ Parsed(1)
    /\ ws[1].pc = "check"
    /\ 1 \in FramesAtMarker(1)
    /\ scn.frames[1].tlen = 16016
    /\ scn.frames[1].recs[1] = RecA
    /\ FromMarker(1) >= 48 + 16
    /\ delivered = <<>>

\* C6: a buffer with a valid header and TLV header announcing N records that ends
\* before the N-th record is complete decodes to the kept records among those
\* fully present.
C6_TruncatedTailKeepsFullRecords ==
    \A w \in Workers : \A k \in FramesAtMarker(w) :
        LET f == scn.frames[k]
            m == (FromMarker(w) - 48) \div 16
        IN  (/\ FromMarker(w) >= 48
             /\ FromMarker(w) <= Len(Body(f))
             /\ FromMarker(w) < 48 + 16 * (f.tlen \div 16)
             /\ f.tlen \div 16 <= 1000
             /\ TypeAccepted(f))
            => ws[w].points = Kept(SubSeq(f.recs, 1, m))

\* the same statement for radar.py alone, where the loop breaks on a short record
C6_TruncatedTailKeepsFullRecordsRadar ==
    variant = "radar" => C6_TruncatedTailKeepsFullRecords

\* C7: in an iteration whose buffer holds no marker the worker stores the bytes
\* it read behind the buffer it loaded, calls no callback and changes nothing
\* else: points_count, running, capturing stay and the buffer is not cleared.
C7_NoMarkerOnlyGrowsBuffer ==
    [][\A w \in Workers :
          /\ (ws[w].pc = "poll" /\ ws'[w] # ws[w] /\ ws'[w].pc = "store")
                => (ws'[w].tmp = buffer \o rx
                    /\ UNCHANGED <<buffer, points_count, running, capturing, delivered>>)
          /\ (ws[w].pc = "store" /\ ws'[w] # ws[w])
                => (buffer' = ws[w].tmp
                    /\ UNCHANGED <<points_count, running, capturing, delivered>>)
          /\ (ws[w].pc = "scan" /\ ws'[w] # ws[w] /\ ~HasMarker(buffer))
                => (ws'[w].pc = "check" /\ ws'[w].called = 0
                    /\ UNCHANGED <<buffer, points_count, running, capturing, delivered>>)
      ]_vars

\* an iteration without marker has ended: the bytes read are in the buffer
C7_Witness ==
    /\ ws[1].pc = "check"
    /\ ~ws[1].found
    /\ running
    /\ rx = <<>>
    /\ pos = 1
    /\ buffer = Chunk(scn, 1)
    /\ ~HasMarker(buffer)
    /\ delivered = <<>>

C9_CallbackIffPoints ==
    \A w \in Workers :
        /\ ws[w].called <= 1
        /\ ws[w].pc \in {"poll", "store", "scan", "parse", "count", "call"} => ws[w].called = 0
        /\ ws[w].pc \in {"incb", "clear", "check"} =>
              /\ ws[w].called = 1 <=> (ws[w].found /\ Len(ws[w].points) > 0)
              /\ ws[w].called = 1 =>
                    (delivered # <<>> /\ delivered[Len(delivered)] = ws[w].points)

\* an iteration ended after its callback received a list of two points
C9_Witness ==
    /\ ws[1].pc = "check"
    /\ ws[1].called = 1
    /\ Len(ws[1].points) = 2
    /\ delivered = <<ws[1].points>>

\* an iteration that found the marker and decoded nothing ended without callback
C9_WitnessNone ==
    /\ ws[1].pc = "check"
    /\ ws[1].found
    /\ ws[1].points = <<>>
    /\ ws[1].called = 0
    /\ delivered = <<>>

\* the stream is two complete frames sent as one chunk: any poll that reads it
\* leaves both frames in the buffer
TwoFramesInOnePoll == Len(scn.frames) = 2 /\ Len(scn.cuts) = 1

\* C10: when one poll leaves two complete frames in the buffer, only the frame
\* at the first marker is decoded and delivered; the bytes of the second are
\* cleared with it and the second frame is never delivered.
C10_SecondFrameNeverDelivered ==
    TwoFramesInOnePoll =>
        /\ Len(delivered) <= 1
        /\ \A i \in 1..Len(delivered) : delivered[i] = Kept(scn.frames[1].recs)
        /\ \A w \in Workers :
              /\ Parsed(w) /\ ws[w].arg # <<>> =>
                    (ws[w].arg = Stream(scn) /\ ws[w].points = Kept(scn.frames[1].recs))
              /\ (ws[w].pc = "check" /\ ws[w].found) => (buffer = <<>> /\ rx = <<>>)

\* both frames were in the decoded buffer, the first was delivered, and the
\* second is gone: nothing is buffered, nothing is waiting, nothing is left to send
C10_Witness ==
    /\ TwoFramesInOnePoll
    /\ Kept(scn.frames[2].recs) # <<>>
    /\ delivered = <<Kept(scn.frames[1].recs)>>
    /\ ws[1].pc = "check"
    /\ ws[1].found
    /\ ws[1].arg = Stream(scn)
    /\ buffer = <<>>
    /\ rx = <<>>
    /\ pos = Len(scn.cuts)
    /\ running

----------------------------------------------------------------------------
(* Decode failures inside the loop, checked under SpecLoop.                *)

\* worker w ended an iteration that found the marker with fewer than 40 bytes
\* buffered from it, and nobody has stopped the capture
ShortHeaderIteration(w) ==
    /\ ws[w].pc = "check"
    /\ ws[w].found
    /\ running
    /\ HasMarker(ws[w].arg)
    /\ FromMarker(w) < 40

\* C11: when the marker is found with fewer than 40 bytes buffered from it, no
\* callback fires and the loop waits for more bytes: the bytes already buffered
\* are still in the buffer when the iteration ends.
C11_ShortHeaderWaitsForMore ==
    \A w \in Workers :
        ShortHeaderIteration(w) => (ws[w].called = 0 /\ buffer = ws[w].arg)

\* the part of C11 that the code keeps: such an iteration decodes nothing and
\* calls no callback
C11_ShortHeaderNoCallback ==
    \A w \in Workers :
        ShortHeaderIteration(w) => (ws[w].points = <<>> /\ ws[w].called = 0 /\ delivered = <<>>)

\* the decode of worker w's iteration met one of the decode-level errors: header
\* or TLV header incomplete, point count over the cap, or a TLV type other than 1
\* under the strict policy
DecodeError(w) ==
    /\ Parsed(w)
    /\ HasMarker(ws[w].arg)
    /\ \/ FromMarker(w) < 48
       \/ \E k \in FramesAtMarker(w) :
             \/ scn.frames[k].tlen \div 16 > 1000
             \/ variant = "radar1" /\ scn.frames[k].ttype # 1

----------------------------------------------------------------------------
(* Session transitions and failures, checked under Spec.                   *)

\* C13: stop_capture called while capturing on a connected session leaves
\* capturing and running false, the buffer empty and the point counter 0, and
\* both channels open.
C13_StopMovesToConnected ==
    [][(capturing /\ BothOpen /\ StopCapture)
          => (~capturing' /\ ~running' /\ buffer' = <<>> /\ points_count' = 0
              /\ cli' = "open" /\ data' = "open")]_vars

\* the same statement for radar.py alone, whose stop_capture clears the buffer
C13_StopMovesToConnectedRadar ==
    [][(variant = "radar" /\ capturing /\ BothOpen /\ StopCapture)
          => (~capturing' /\ ~running' /\ buffer' = <<>> /\ points_count' = 0
              /\ cli' = "open" /\ data' = "open")]_vars

\* the step in which disconnect(), called with both channels open, closes them
\* and returns
DisconnectReturns == BothOpen /\ caller = "closing" /\ caller' = "ready"

\* C14: disconnect called on a connected or capturing session stops the capture
\* before it closes a channel, then closes both and drops the handles; when it
\* returns, no channel is open and capturing is false.
C14_DisconnectEndsIdle ==
    [][/\ (cli = "open" /\ cli' # "open") \/ (data = "open" /\ data' # "open")
            => (caller = "closing" /\ ~running)
       /\ DisconnectReturns
            => (cli' = "none" /\ data' = "none" /\ ~running' /\ ~capturing')]_vars

\* the part of C14 that the code keeps in both classes: the running flag is
\* cleared before a channel is closed, both handles are dropped, and in radar.py
\* capturing is false at the return
C14_DisconnectClosesAfterStop ==
    [][/\ (cli = "open" /\ cli' # "open") \/ (data = "open" /\ data' # "open")
            => (caller = "closing" /\ ~running)
       /\ DisconnectReturns
            => (cli' = "none" /\ data' = "none" /\ ~running'
                /\ (variant = "radar" => ~capturing'))]_vars

\* C15: a connect that fails returns False and leaves the session as it was: no
\* channel handle changes, and never is exactly one of the two channels open.
C15_FailedConnectChangesNothing ==
    [][(ConnectCliFails \/ ConnectDataFails)
          => (last'.ret = FALSE
              /\ UNCHANGED <<cli, data, running, capturing, buffer, points_count, ws>>
              /\ (cli' = "open" <=> data' = "open"))]_vars

\* the part of C15 that the code keeps: a failed connect returns False and
\* touches nothing but the control channel handle
C15_FailedConnectReportsFailure ==
    [][(ConnectCliFails \/ ConnectDataFails)
          => (last'.op = "connect" /\ last'.ret = FALSE
              /\ UNCHANGED <<data, running, capturing, buffer, points_count, ws>>)]_vars

\* C16 as stated: after an exception in a worker iteration the worker terminates
\* and the capturing flag stays as it was before the failure, true.
C16_FailureLeavesCapturing ==
    [][\A w \in Workers :
          (ws[w].failed /\ ws[w].pc = "exit" /\ ws'[w].pc = "idle" /\ capturing)
              => capturing']_vars

\* C16: an exception in a worker iteration is caught: the step that leaves the
\* loop changes nothing but the worker's position, and the worker then terminates
\* by setting capturing to False, leaving running and every other field alone.
C16_FailureResetsCapturing ==
    [][\A w \in Workers :
          /\ (~ws[w].failed /\ ws'[w].failed)
                => (ws[w].pc = "poll" /\ ws'[w].pc = "exit"
                    /\ UNCHANGED <<cli, data, running, capturing, buffer, points_count,
                                   delivered, last>>)
          /\ (ws[w].failed /\ ws'[w] # ws[w])
                => (ws'[w].pc = "idle" /\ ~capturing'
                    /\ UNCHANGED <<cli, data, running, buffer, points_count, delivered,
                                   last>>)]_vars

\* the only worker ended on an exception: the session is connected, the running
\* flag is still set, capturing is cleared and no worker is left
C16_Witness ==
    /\ last.op = "start_capture"
    /\ last.ret = TRUE
    /\ BothOpen
    /\ running
    /\ ~capturing
    /\ \A w \in Workers : ws[w].pc = "idle"

----------------------------------------------------------------------------
(* Termination of the worker, checked under SpecLoopFair.                  *)

\* C17: once stop_capture has cleared the running flag (and nothing sets it
\* again) every live worker eventually ends; from the loop test at which it sees
\* the cleared flag on, it reads, decodes and delivers nothing.
C17_StoppedWorkerExits ==
    /\ (~running /\ \E w \in Workers : ws[w].pc # "idle")
           ~> (\A w \in Workers : ws[w].pc = "idle")
    /\ [][\A w \in Workers :
             /\ (ws[w].pc = "check" /\ ~running /\ ws'[w] # ws[w])
                   => (ws'[w].pc = "exit" /\ UNCHANGED <<buffer, rx, delivered, points_count>>)
             /\ (ws[w].pc = "exit" /\ ws'[w] # ws[w])
                   => (ws'[w].pc = "idle" /\ UNCHANGED <<buffer, rx, delivered, points_count>>)
         ]_vars

\* the capture was stopped and the worker has ended while bytes of the stream
\* were still waiting in the data port: they were not read, nothing was delivered
C17_Witness ==
    /\ last.op = "stop_capture"
    /\ ~running
    /\ \A w \in Workers : ws[w].pc = "idle"
    /\ pos = Len(scn.cuts)
    /\ HasMarker(rx)
    /\ delivered = <<>>

----------------------------------------------------------------------------
(* Delivery order, checked under SpecRestart, and the writers of the       *)
(* buffer, checked under Spec.                                             *)

\* the delivered lists are the kept records of frames of the stream, taken in
\* stream order, no frame twice
DeliveredInStreamOrder ==
    \E idx \in [1..Len(delivered) -> 1..Len(scn.frames)] :
        /\ \A i \in 1..Len(delivered) : delivered[i] = Kept(scn.frames[idx[i]].recs)
        /\ \A i, j \in 1..Len(delivered) : i < j => idx[i] < idx[j]

\* C18: frames reach the callback in the order their bytes arrived, and no frame
\* is delivered twice.
C18_DeliveredInArrivalOrder == DeliveredInStreamOrder

\* the part of C18 that the code keeps: a session with a single worker delivers
\* the frames of a two-frame stream in arrival order, none twice (SpecLoop)
C18_SingleWorkerInOrder == Len(scn.frames) = 2 => DeliveredInStreamOrder

\* C19: the buffer is written by the capture worker only: every step that
\* changes the buffer is the store or the clear of a worker thread, in every
\* interleaving with start_capture, stop_capture and disconnect.
C19_OnlyWorkerWritesBuffer ==
    [][buffer' # buffer
          => \E w \in Workers : ws[w].pc \in {"store", "clear"} /\ ws'[w] # ws[w]]_vars

----------------------------------------------------------------------------
(* The configuration lines, checked under Spec.                            *)

\* what the four-line configuration file "a", "", " b c<TAB>", "d" must put on
\* the control channel
ExpectedWrites == << <<"a", "\n">>, <<"b", " ", "c", "\n">>, <<"d", "\n">> >>

C20_WitnessAll ==
    /\ last.op = "send_config"
    /\ BothOpen
    /\ last.ret = TRUE
    /\ last.tx = ExpectedWrites

\* ---------------------------------------------------------------------------
\* Claims C21 to C23: the decoder as a function of the bytes (SpecRestart, SpecLoop)
\* ---------------------------------------------------------------------------

RecordsDecoded(f, have) ==
    LET n    == f.tlen \div 16
        full == Min(n, Min(Len(f.recs), (have - 48) \div 16))
    IN  IF n > 1000 THEN <<>> ELSE Kept(SubSeq(f.recs, 1, full))

\* the decoded bytes from the marker on are bytes of frame f only, or f holds
\* every record it announces
WithinFrame(w, f) ==
    FromMarker(w) <= Len(Body(f)) \/ f.tlen \div 16 <= Len(f.recs)

\* C22: under the strict policy (radar1.py, radar2.py) a frame whose tlvType is
\* not 1 decodes to nothing and triggers no callback, whatever its length and
\* records; under the permissive policy (radar.py) the decoded points are those
\* the length and the records give, whatever the tlvType.
C22_TypePolicy ==
    \A w \in Workers : \A k \in FramesAtMarker(w) :
        LET f == scn.frames[k]
        IN  (FromMarker(w) >= 48 /\ WithinFrame(w, f)) =>
                /\ (variant = "radar1" /\ f.ttype # 1) =>
                        (ws[w].points = <<>> /\ ws[w].called = 0)
                /\ variant = "radar" =>
                        ws[w].points = RecordsDecoded(f, FromMarker(w))

\* radar.py has delivered the points of a frame of type 2
C22_Witness ==
    /\ variant = "radar"
    /\ ws[1].pc = "check"
    /\ FramesAtMarker(1) # {}
    /\ \A k \in FramesAtMarker(1) : scn.frames[k].ttype = 2
    /\ Len(ws[1].points) > 0
    /\ delivered = <<ws[1].points>>

\* radar1.py has ended the iteration of a complete frame of type 2 with kept
\* records, and no callback was made
C22_WitnessStrict ==
    /\ variant = "radar1"
    /\ ws[1].pc = "check"
    /\ FramesAtMarker(1) # {}
    /\ \A k \in FramesAtMarker(1) :
          LET f == scn.frames[k]
          IN  /\ f.ttype = 2
              /\ f.tlen = 16 * Len(f.recs)
              /\ FromMarker(1) = Len(Body(f))
              /\ Kept(f.recs) # <<>>
    /\ ws[1].points = <<>>
    /\ delivered = <<>>

\* what a variant decodes from marker, TLV header and records alone: radar.py
\* stops at the first record that is not whole, radar1.py then gives nothing
BodyDecoded(v, f, have) ==
    LET n == f.tlen \div 16
    IN  IF v = "radar" THEN RecordsDecoded(f, have)
        ELSE IF f.ttype # 1 \/ n > 1000 THEN <<>>
        ELSE IF n > Len(f.recs) \/ (have - 48) \div 16 < n THEN <<>>
        ELSE Kept(SubSeq(f.recs, 1, n))

\* C23: the decoded points do not depend on version, totalPacketLength,
\* platform, frameNumber, cpuCycles, numDetectedObjects or numTlvs: they are
\* what the TLV header and the records give, behind whichever header words.
C23_HeaderWordsIgnored ==
    \A w \in Workers : \A k \in FramesAtMarker(w) :
        LET f == scn.frames[k]
        IN  (FromMarker(w) >= 48 /\ WithinFrame(w, f)) =>
                ws[w].points = BodyDecoded(variant, f, FromMarker(w))

\* behind a header announcing a million objects in 99 TLVs the records of the
\* frame are decoded, as many as behind the other headers
C23_Witness ==
    /\ ws[1].pc = "check"
    /\ FramesAtMarker(1) # {}
    /\ \A k \in FramesAtMarker(1) : scn.frames[k].hdr = Hdr2
    /\ ws[1].points = Kept(Mixed)
    /\ Len(ws[1].points) > 0
    /\ delivered = <<ws[1].points>>

\* behind a header announcing no object and no TLV the records are decoded
C23_WitnessNoObject ==
    /\ ws[1].pc = "check"
    /\ FramesAtMarker(1) # {}
    /\ \A k \in FramesAtMarker(1) :
          scn.frames[k].hdr[6] = 0 /\ scn.frames[k].hdr[7] = 0
    /\ Len(ws[1].points) = MaxRecs

\* ---------------------------------------------------------------------------
\* Claims C24 to C30: stop, restart and disconnect against a running worker
\* ---------------------------------------------------------------------------

\* worker w has passed the loop test and is inside an iteration
InIteration(w) ==
    ws[w].pc \in {"poll", "store", "scan", "parse", "count", "call", "incb", "clear"}

\* C24: after stop_capture followed by a successful start_capture the worker of
\* the earlier start sees the cleared flag and ends, so at no time are two
\* workers inside the capture loop of one session.
C24_OneWorkerInLoop ==
    Cardinality({w \in Workers : InIteration(w)}) <= 1

\* C25: from a successful start_capture until the next stop_capture, disconnect
\* or failure of the session's own worker the capturing flag stays true; the
\* last `capturing = False` of a worker of an earlier, stopped session does not
\* clear it.  (No other call has been made while last is the accepted start,
\* and no read fails in the restart specification.)
C25_CapturingUntilStopped ==
    (last.op = "start_capture" /\ last.ret) => capturing

\* C26: once stop_capture has returned, capturing stays false until the next
\* successful start_capture: neither the finishing worker nor the consumer
\* callback it is running sets it back to true.
C26_StoppedStaysStopped ==
    last.op = "stop_capture" => ~capturing

\* the same for radar.py, whose consumers do not touch the flag
C26_StoppedStaysStoppedRadar ==
    (variant = "radar" /\ last.op = "stop_capture") => ~capturing

\* C27: once stop_capture of radar.py has returned and the worker has ended,
\* and start_capture has not been called, the buffer is empty and the point
\* counter is 0: the iteration in progress at the stop leaves nothing behind
\* the clearing.
C27_NothingLeftAfterStop ==
    (/\ variant = "radar"
     /\ last.op = "stop_capture"
     /\ \A w \in Workers : ws[w].pc = "idle")
        => (buffer = <<>> /\ points_count = 0)

\* the point counter alone
C27_CountZeroAfterStop ==
    (/\ variant = "radar"
     /\ last.op = "stop_capture"
     /\ \A w \in Workers : ws[w].pc = "idle")
        => points_count = 0

\* C28: disconnect stops capture before closing, so the worker never touches
\* the data channel after disconnect has closed it or dropped its handle: every
\* poll of a worker (`self.data.in_waiting`, `self.data.read`) finds the
\* channel open.
C28_PollsBeforeClose ==
    [][\A w \in Workers :
        (ws[w].pc = "poll" /\ ws'[w].pc # "poll") => data = "open"]_vars

\* C29: after stop_capture has returned and until the next start_capture the
\* consumer callback is invoked at most once more, for the iteration that was
\* in progress, and never by a worker that has seen the cleared flag.
C29_OneMoreCallbackAfterStop ==
    last.op = "stop_capture" => Len(delivered) - last.seen <= 1

\* a worker that has left the loop makes no callback
C29_NoCallbackAfterLoopExit ==
    [][\A w \in Workers :
        ws[w].pc = "exit" => (ws'[w].pc = "exit" \/ delivered' = delivered)]_vars

\* C30: in every state radar.py reaches through connect, disconnect,
\* start_capture, stop_capture and worker steps, capturing = true implies that
\* both channels are open; the session is never capturing while disconnected.
C30_CapturingImpliesConnected ==
    (variant = "radar" /\ capturing) => BothOpen

\* disconnect has returned on a session that was capturing: the ports are
\* closed, the flag is down and the worker of the capture is still alive
C30_Witness ==
    /\ variant = "radar"
    /\ last.op = "disconnect"
    /\ ~BothOpen
    /\ ~capturing
    /\ \E w \in Workers : ws[w].pc \notin {"idle", "exit"}

\* ---------------------------------------------------------------------------
\* Claims C31 and C32: the flags and the callback against the worker (Spec, SpecLoop)
\* ---------------------------------------------------------------------------

\* C31: whenever no capture worker is active, running and capturing are both
\* false; in particular after a worker has ended through the exception path
\* the two flags agree.
C31_NoWorkerFlagsDown ==
    (\A w \in Workers : ws[w].pc = "idle") => (~running /\ ~capturing)

\* the capturing half: with no worker active, capturing is false
C31_NoWorkerNotCapturing ==
    (\A w \in Workers : ws[w].pc = "idle") => ~capturing

\* a consumer callback has been entered and has not returned
CallbackInProgress == \E w \in Workers : ws[w].pc = "incb"

\* C32: the consumer callback runs synchronously on the capture worker: while
\* an invocation is in progress no bytes are polled from the data port, nothing
\* is appended to the buffer and, with the single worker of a session, no
\* second invocation begins.
C32_CallbackBlocksWorker ==
    /\ [](Cardinality({w \in Workers : ws[w].pc = "incb"}) <= 1)
    /\ [][CallbackInProgress =>
            /\ \A u \in Workers :
                  ws[u].pc \in {"poll", "store"} => ws'[u].pc = ws[u].pc
            /\ Len(rx') >= Len(rx)
            /\ Len(buffer') <= Len(buffer)
            /\ delivered' = delivered]_vars

\* bytes of the next frame wait in the port while the callback of the first
\* frame is in progress
C32_Witness ==
    /\ ws[1].pc = "incb"
    /\ rx # <<>>
    /\ running
    /\ Len(delivered) = 1

\* ---------------------------------------------------------------------------
\* Claims C33 to C36: the buffer and the decoder on byte level (SpecLoop)
\* ---------------------------------------------------------------------------

\* the bytes of the stream the workers have read from the port so far
Consumed == SubSeq(Stream(scn), 1, BytesRead)

\* worker w has made the marker test of its current iteration
ScanDone(w) ==
    \/ ws[w].pc \in {"parse", "count", "call", "incb", "clear"}
    \/ ws[w].pc = "check" /\ ws[w].tmp # <<>>

\* C33: the marker test runs over all bytes appended since the last clear.
\* While the bytes read so far hold no marker the buffer is exactly those
\* bytes, in order; the test finds the marker exactly when the bytes it runs
\* over hold one, so a marker split across polls is found in the iteration
\* that appends its last byte and no iteration begins on a buffer with a marker.
\* (Stated for a session that has not been stopped.)
C33_MarkerOverAllAppendedBytes ==
    last.op = "start_capture" =>
        \A w \in Workers : ws[w].pc # "idle" =>
            /\ ~HasMarker(Consumed) =>
                  /\ (IF ws[w].pc = "store" THEN ws[w].tmp ELSE buffer) = Consumed
                  /\ ~ws[w].found
            /\ ScanDone(w) => (ws[w].found <=> HasMarker(ws[w].tmp))
            /\ ws[w].pc \in {"check", "poll", "store"} => ~HasMarker(buffer)

\* the marker comes in three chunks: the first two are in the buffer from
\* earlier polls, without a marker, and the poll of the third has put the
\* whole marker together
C33_Witness ==
    /\ scn \in SplitMarkers
    /\ last.op = "start_capture"
    /\ pos = 3
    /\ ws[1].pc = "store"
    /\ buffer = Chunk(scn, 1) \o Chunk(scn, 2)
    /\ ~HasMarker(buffer)
    /\ ws[1].tmp = Stream(scn)
    /\ HasMarker(ws[1].tmp)

\* the decoded buffer of worker w without the bytes in front of its first marker
ArgFromMarker(w) == SubSeq(ws[w].arg, FirstMarker(ws[w].arg) + 1, Len(ws[w].arg))

\* C34: all decode offsets are relative to the first marker: the bytes in front
\* of it do not change the decoded points, which are those of the same bytes
\* with the prefix taken away (header at [0, 40), TLV header at [40, 48),
\* records from byte 48 of the marker).
C34_PrefixDoesNotMatter ==
    \A w \in Workers :
        (Parsed(w) /\ HasMarker(ws[w].arg)) =>
            /\ ws[w].points = parse_pointcloud(variant, ArgFromMarker(w))
            /\ \A k \in FramesAtMarker(w) :
                  (FromMarker(w) >= 48 /\ WithinFrame(w, scn.frames[k])) =>
                      ws[w].points = BodyDecoded(variant, scn.frames[k], FromMarker(w))

\* a frame behind the first seven bytes of a marker has been decoded to the
\* points of its records
C34_Witness ==
    /\ Parsed(1)
    /\ HasMarker(ws[1].arg)
    /\ FirstMarker(ws[1].arg) = 7
    /\ SubSeq(ws[1].arg, 1, 7) = NearMarker
    /\ ws[1].points = Kept(Mixed)
    /\ Len(ws[1].points) > 0

\* the count the decoder of worker w computed from the TLV header it decoded
CountDecoded(w) == NumPoints(U32(SubSeq(ArgFromMarker(w), 45, 48)))

\* C35: the point count is floor(tlvLength / 16) and the cap is strict: lengths
\* from 16000 to 16015 give a count of 1000 and are decoded, lengths from 16016
\* on are rejected, lengths under 16 give no record, and whatever the length
\* only whole records among the first floor(tlvLength / 16) are read.
C35_FloorAndStrictCap ==
    \A w \in Workers : \A k \in FramesAtMarker(w) :
        LET f    == scn.frames[k]
            n    == f.tlen \div 16
            have == (FromMarker(w) - 48) \div 16
        IN  (FromMarker(w) >= 48 /\ WithinFrame(w, f)) =>
                /\ CountDecoded(w) = n
                /\ f.tlen \in 16000..16015 => CountDecoded(w) = 1000
                /\ \E j \in 0..Min(n, Len(f.recs)) : ws[w].points = Kept(SubSeq(f.recs, 1, j))
                /\ (f.tlen >= 16016 \/ f.tlen < 16) => ws[w].points = <<>>
                /\ (f.tlen <= 16015 /\ TypeAccepted(f) /\ (n <= have \/ variant = "radar")) =>
                        ws[w].points = Kept(SubSeq(f.recs, 1, Min(n, have)))

\* a frame announcing 16015 bytes has been decoded: the records on the wire
\* are read and delivered
C35_Witness ==
    /\ variant = "radar"
    /\ ws[1].pc = "check"
    /\ Parsed(1)
    /\ scn.frames[1].tlen = 16015
    /\ HasMarker(ws[1].arg)
    /\ CountDecoded(1) = 1000
    /\ ws[1].points = Kept(Mixed)
    /\ delivered = <<Kept(Mixed)>>

\* a frame announcing 17 bytes in front of MaxRecs records gives one record
C35_WitnessOneRecord ==
    /\ ws[1].pc = "check"
    /\ Parsed(1)
    /\ scn.frames[1].tlen = 17
    /\ Len(scn.frames[1].recs) = MaxRecs
    /\ ws[1].points = Kept(SubSeq(Mixed, 1, 1))
    /\ Len(ws[1].points) = 1

\* record i of frame f is among the decoded points of worker w
RecordKept(w, f, i) == \E j \in 1..Len(ws[w].points) : ws[w].points[j] = f.recs[i]

\* every record frame f has on the wire was read by the decode of worker w
AllRecordsRead(w, f) ==
    /\ FromMarker(w) >= 48 + 16 * Len(f.recs)
    /\ f.tlen \div 16 <= 1000
    /\ TypeAccepted(f)
    /\ IF variant = "radar" THEN f.tlen \div 16 >= Len(f.recs)
       ELSE f.tlen \div 16 = Len(f.recs)

\* all three coordinates have the bit pattern of the positive zero
PositiveZeroBits(r) == r[1] = PosZero /\ r[2] = PosZero /\ r[3] = PosZero

\* C36 as stated: a record is dropped if and only if the bit patterns of x, y
\* and z are all the positive-zero pattern; velocity has no say.
C36_DroppedIffPositiveZeroBits ==
    \A w \in Workers : \A k \in FramesAtMarker(w) :
        LET f == scn.frames[k]
        IN  AllRecordsRead(w, f) =>
                \A i \in 1..Len(f.recs) : ~RecordKept(w, f, i) <=> PositiveZeroBits(f.recs[i])

\* C36 as the code has it: a record is dropped if and only if x, y and z each
\* compare equal to zero as floats, that is each is +0.0 or -0.0 (no tolerance:
\* the smallest denormal and NaN are kept); velocity has no say.
C36_DroppedIffZeroValued ==
    \A w \in Workers : \A k \in FramesAtMarker(w) :
        LET f == scn.frames[k]
        IN  AllRecordsRead(w, f) =>
                /\ \A i \in 1..Len(f.recs) : ~RecordKept(w, f, i) <=> ~KeptRec(f.recs[i])
                /\ Len(ws[w].points) = Cardinality({i \in 1..Len(f.recs) : KeptRec(f.recs[i])})

\* a frame with a negative-zero record and a zero record of velocity 1 has
\* been decoded, and neither is among its points
C36_Witness ==
    /\ ws[1].pc = "check"
    /\ FramesAtMarker(1) = {1}
    /\ AllRecordsRead(1, scn.frames[1])
    /\ scn.frames[1].recs = <<RecA, RecNz, RecZv>>
    /\ ws[1].points = <<RecA>>
    /\ delivered = <<ws[1].points>>

\* the smallest denormal and NaN are kept
C36_WitnessKept ==
    /\ Parsed(1)
    /\ FramesAtMarker(1) # {}
    /\ ws[1].points = <<RecNaN, RecTiny>>

\* ---------------------------------------------------------------------------
\* Claims C37 and C38: restart and connect (SpecRestart, Spec)
\* ---------------------------------------------------------------------------

\* worker w has delivered, in its current iteration, the first frame since the
\* last public call
FirstDelivery(w) ==
    /\ ws[w].pc \in {"incb", "clear", "check"}
    /\ ws[w].called = 1
    /\ Len(delivered) = last.seen + 1

\* bytes a+1 to b of the stream
StreamPart(a, b) == SubSeq(Stream(scn), a + 1, b)

\* C37: a partial frame buffered when capture stops is not carried into the
\* next session: the first frame delivered after an accepted start_capture is
\* not decoded from a buffer that joins bytes read before that start to bytes
\* read after it.
C37_PartialFrameNotCarried ==
    (last.op = "start_capture" /\ last.ret) =>
        \A w \in Workers : FirstDelivery(w) =>
            ~\E a \in 0..(last.read - 1) : \E b \in (last.read + 1)..Len(Stream(scn)) :
                ws[w].arg = StreamPart(a, b)

\* the same, no byte read before the start allowed in the decoded buffer
C37_OnlyBytesReadAfterStart ==
    (last.op = "start_capture" /\ last.ret) =>
        \A w \in Workers : FirstDelivery(w) =>
            \E a \in last.read..Len(Stream(scn)) : \E b \in a..Len(Stream(scn)) :
                ws[w].arg = StreamPart(a, b)

C38_WitnessFailed ==
    /\ last.op = "connect"
    /\ ~last.ret
    /\ last.read > 0
    /\ running /\ capturing
    /\ \E w \in Workers : ws[w].pc = "parse" /\ buffer # <<>>

====
